---- MODULE Spec2Model ----
(***************************************************************************)
(* Model of ocr_web_app.py: the essay-OCR intake pipeline (process_pdf),   *)
(* its helpers (run_header_ocr's academy mapping, run_answer_ocr,          *)
(* find_student_row) and the review step of main().                        *)
(*                                                                         *)
(* Strings are sequences of one-token strings.  Hangul syllables are       *)
(* written romanised, one token per syllable: gim po gak in bon won dae    *)
(* chi bak gi ho bun dang reo sel.  " " is the space, "B"/"b" a cased      *)
(* Latin letter pair (the only characters str.lower() changes here).       *)
(* Python's None is 0 for a sheet row (rows are >= 1), NoError for an      *)
(* error value, and the empty sequence for an Optional dict.               *)
(***************************************************************************)
EXTENDS Integers, Sequences, FiniteSets, TLC

VARIABLES
    \* run_header_ocr's academy mapping, applied to one recognised value
    academy_in, academy_ret,
    \* find_student_row, applied to one sheet read and one recognised name
    sheet_in, name_in, row_ret,
    \* run_answer_ocr, applied to one environment and one pair of responses
    ocr_in, ocr_ret,
    \* main() and process_pdf: the environment settings, the Sheets client,
    \* the position in the click handler, process_pdf's parameters and locals
    env, spreadsheet, pc, lesson, images, idx,
    current_student_info, students_data,
    \* what process_pdf surfaced (st.warning / st.error) and what the most
    \* recent loop iteration did
    ui, last,
    \* st.session_state
    session_students_data, processing_complete,
    \* run_header_ocr, applied to one environment and one response
    header_in, header_ret,
    \* get_lesson_prompt, applied to one sheet read, lesson and question
    prompt_in, prompt_ret,
    \* the calibration expander: st.session_state.crop_coords_q1/_q2, the
    \* slider widgets, the pages of the sample PDF, the region of the last crop
    crop_coords_q1, crop_coords_q2, sliders, sample_pages, crop_used,
    \* the save button: the cells of the spreadsheet and the writes of the
    \* most recent save
    cells, last_save

academyVars == <<academy_in, academy_ret>>
rosterVars == <<sheet_in, name_in, row_ret>>
ocrVars == <<ocr_in, ocr_ret>>

pdfVars == <<env, spreadsheet, pc, lesson, images, idx, current_student_info,
             students_data, ui, last, session_students_data, processing_complete>>

headerVars == <<header_in, header_ret>>
promptVars == <<prompt_in, prompt_ret>>
calibVars == <<crop_coords_q1, crop_coords_q2, sliders, sample_pages, crop_used>>
saveVars == <<cells, last_save>>

\* everything but main() and process_pdf
functionVars == <<academyVars, rosterVars, ocrVars, headerVars, promptVars,
                  calibVars, saveVars>>

vars == <<academy_in, academy_ret, sheet_in, name_in, row_ret, ocr_in, ocr_ret,
          env, spreadsheet, pc, lesson, images, idx, current_student_info,
          students_data, ui, last, session_students_data, processing_complete,
          header_in, header_ret, prompt_in, prompt_ret,
          crop_coords_q1, crop_coords_q2, sliders, sample_pages, crop_used,
          cells, last_save>>

-----------------------------------------------------------------------------
(* Bounds of the model *)

\* number of pieces an enumerated academy string is built from
MaxPieces == 3
\* number of rows of an enumerated roster sheet
MaxRows == 3
\* number of text fields of an enumerated handwriting-OCR response
MaxFields == 2
\* number of pages of an uploaded document
MaxPages == 3
\* number of pages of a document uploaded in a session that is then reviewed
MaxReviewPages == 2

-----------------------------------------------------------------------------
(* The lists of at most n elements of S *)

RECURSIVE ListsOf(_, _)
ListsOf(S, n) ==
    IF n = 0 THEN {<<>>}
    ELSE LET shorter == ListsOf(S, n - 1)
         IN shorter \cup {Append(l, x) : l \in {m \in shorter : Len(m) = n - 1}, x \in S}

-----------------------------------------------------------------------------
(* Python string operations *)

\* needle in hay
Contains(hay, needle) ==
    \E i \in 0..(Len(hay) - Len(needle)) :
        \A j \in 1..Len(needle) : hay[i + j] = needle[j]

LowerChar(c) == IF c = "B" THEN "b" ELSE c

\* s.lower()
Lower(s) == [i \in 1..Len(s) |-> LowerChar(s[i])]

\* s.replace(" ", "")
RECURSIVE RemoveSpaces(_)
RemoveSpaces(s) ==
    IF s = <<>> THEN <<>>
    ELSE IF Head(s) = " " THEN RemoveSpaces(Tail(s))
    ELSE <<Head(s)>> \o RemoveSpaces(Tail(s))

\* s.strip(), the whitespace being the space
RECURSIVE LStrip(_)
LStrip(s) == IF s # <<>> /\ Head(s) = " " THEN LStrip(Tail(s)) ELSE s

RECURSIVE RStrip(_)
RStrip(s) ==
    IF s # <<>> /\ s[Len(s)] = " " THEN RStrip(SubSeq(s, 1, Len(s) - 1)) ELSE s

Strip(s) == RStrip(LStrip(s))

-----------------------------------------------------------------------------
(* ACADEMY_MAPPING and the mapping loop of run_header_ocr *)

GimpoGakin == <<"gim", "po", " ", "gak", "in">>
Bonwon == <<"bon", "won">>
BundangRussel == <<"bun", "dang", " ", "reo", "sel">>
DaechiRussel == <<"dae", "chi", " ", "reo", "sel">>

\* the dict in insertion order: <<keyword, mapped>>
ACADEMY_MAPPING == <<
    <<<<"gim", "po", "gak", "in">>, GimpoGakin>>,
    <<<<"gim", "po">>, GimpoGakin>>,
    <<<<"gak", "in">>, GimpoGakin>>,
    <<<<"bon", "won">>, Bonwon>>,
    <<<<"dae", "chi", "bak", "gi", "ho">>, Bonwon>>,
    <<<<"bak", "gi", "ho">>, Bonwon>>,
    <<<<"bun", "dang", "reo", "sel">>, BundangRussel>>,
    <<<<"bun", "dang">>, BundangRussel>>,
    <<<<"reo", "sel", "bun", "dang">>, BundangRussel>>,
    <<<<"dae", "chi", "reo", "sel">>, DaechiRussel>>,
    <<<<"dae", "chi">>, DaechiRussel>>,
    <<<<"reo", "sel", "dae", "chi">>, DaechiRussel>> >>

\* for keyword, mapped in ACADEMY_MAPPING.items(): from entry k on
RECURSIVE MappingLoop(_, _, _)
MappingLoop(k, academy, academy_normalized) ==
    IF k > Len(ACADEMY_MAPPING) THEN academy
    ELSE IF Contains(academy_normalized, Lower(ACADEMY_MAPPING[k][1]))
         THEN ACADEMY_MAPPING[k][2]
         ELSE MappingLoop(k + 1, academy, academy_normalized)

\* a deviation from the code: the loop runs without the break, so the last matching entry wins
RECURSIVE MappingLoopNoBreak(_, _, _)
MappingLoopNoBreak(k, academy, academy_normalized) ==
    IF k > Len(ACADEMY_MAPPING) THEN academy
    ELSE MappingLoopNoBreak(k + 1,
            IF Contains(academy_normalized, Lower(ACADEMY_MAPPING[k][1]))
            THEN ACADEMY_MAPPING[k][2] ELSE academy,
            academy_normalized)

map_academy_nobreak(academy) ==
    MappingLoopNoBreak(1, academy, Lower(RemoveSpaces(academy)))

\* result["academy"] after the mapping block
map_academy(academy) ==
    MappingLoop(1, academy, Lower(RemoveSpaces(academy)))

-----------------------------------------------------------------------------
(* Roster sheets: get_students_list and find_student_row *)

\* a sheet read is [ok |-> the worksheet was read, all_data |-> its rows];
\* a row is a sequence of cells, a cell a string
HaksaengIreum == <<"hak", "saeng", "i", "reum">>
Ireum == <<"i", "reum">>

\* row and row[0] (truthiness of a list and of a string)
HasFirstCell(row) == row # <<>> /\ row[1] # <<>>

\* first for loop: the index (0-based) of the first row whose first cell is
\* non-empty and no header literal; data_start stays 1 when there is none
RECURSIVE DataStartFrom(_, _)
DataStartFrom(all_data, i) ==
    IF i >= Len(all_data) THEN 1
    ELSE IF /\ HasFirstCell(all_data[i + 1])
            /\ all_data[i + 1][1] \notin {HaksaengIreum, Ireum, <<>>}
         THEN i
         ELSE DataStartFrom(all_data, i + 1)

\* second for loop: enumerate(all_data[data_start:], start=data_start + 1),
\* from sheet row i (1-based) on
RECURSIVE StudentsFrom(_, _)
StudentsFrom(all_data, i) ==
    IF i > Len(all_data) THEN <<>>
    ELSE LET row == all_data[i]
         IN (IF HasFirstCell(row) /\ Strip(row[1]) # <<>>
             THEN <<[row |-> i,
                     name |-> Strip(row[1]),
                     teacher |-> IF Len(row) > 1 THEN Strip(row[2]) ELSE <<>>]>>
             ELSE <<>>)
            \o StudentsFrom(all_data, i + 1)

get_students_list(sheet) ==
    IF ~sheet.ok THEN <<>>
    ELSE StudentsFrom(sheet.all_data, DataStartFrom(sheet.all_data, 0) + 1)

\* for student in students: from entry k on; 0 is None
RECURSIVE FindLoop(_, _, _)
FindLoop(students, k, student_name) ==
    IF k > Len(students) THEN 0
    ELSE IF \/ Contains(students[k].name, student_name)
            \/ Contains(student_name, students[k].name)
         THEN students[k].row
         ELSE FindLoop(students, k + 1, student_name)

\* a deviation from the code: only an exact name matches
RECURSIVE FindLoopExact(_, _, _)
FindLoopExact(students, k, student_name) ==
    IF k > Len(students) THEN 0
    ELSE IF students[k].name = student_name
         THEN students[k].row
         ELSE FindLoopExact(students, k + 1, student_name)

find_student_row_exact(sheet, student_name) ==
    FindLoopExact(get_students_list(sheet), 1, student_name)

find_student_row(sheet, student_name) ==
    FindLoop(get_students_list(sheet), 1, student_name)

-----------------------------------------------------------------------------
(* Handwriting OCR and restoration: run_naver_ocr, run_gemini_restore,      *)
(* run_answer_ocr                                                           *)

\* the environment (os.getenv / st.secrets): which settings are present
\*   [api_url, secret_key : CLOVA OCR; api_key : GOOGLE_API_KEY]
\* a CLOVA response is [kind, fields]: kind "ok" with the inferText of the
\* fields, or the exception raised ("RequestException", "Exception")
\* a Gemini response is [kind, text]: kind "ok" with response.text, or
\* "Exception"

NoError == "None"
ErrOcrEnv == "CLOVA_OCR_API_URL or CLOVA_OCR_SECRET_KEY required"
ErrNaverApi == "naver OCR API error"
ErrOcrProcessing == "OCR processing error"
ErrNoApiKey == "no GOOGLE_API_KEY - raw OCR text returned"
ErrGeminiRestore == "Gemini restore error"

\* ' '.join(texts)
RECURSIVE Join(_)
Join(texts) ==
    IF texts = <<>> THEN <<>>
    ELSE IF Len(texts) = 1 THEN texts[1]
    ELSE texts[1] \o <<" ">> \o Join(Tail(texts))

\* texts: the non-empty inferText values of the fields, in order
JoinTexts(fields) == Join(SelectSeq(fields, LAMBDA t : t # <<>>))

\* (raw_text, error, the request was posted)
run_naver_ocr(environment, response) ==
    IF ~environment.api_url \/ ~environment.secret_key
    THEN [raw_text |-> <<>>, error |-> ErrOcrEnv, posted |-> FALSE]
    ELSE IF response.kind = "RequestException"
    THEN [raw_text |-> <<>>, error |-> ErrNaverApi, posted |-> TRUE]
    ELSE IF response.kind = "Exception"
    THEN [raw_text |-> <<>>, error |-> ErrOcrProcessing, posted |-> TRUE]
    ELSE [raw_text |-> JoinTexts(response.fields), error |-> NoError, posted |-> TRUE]

\* a deviation from the code: a failed restoration returns the empty text
run_gemini_restore_empty(raw_ocr_text, environment, response) ==
    IF ~environment.api_key
    THEN [text |-> <<>>, error |-> ErrNoApiKey, requested |-> FALSE]
    ELSE IF response.kind = "Exception"
    THEN [text |-> <<>>, error |-> ErrGeminiRestore, requested |-> TRUE]
    ELSE [text |-> Strip(response.text), error |-> NoError, requested |-> TRUE]

\* (restored_text, error, generate_content was requested)
run_gemini_restore(raw_ocr_text, environment, response) ==
    IF ~environment.api_key
    THEN [text |-> raw_ocr_text, error |-> ErrNoApiKey, requested |-> FALSE]
    ELSE IF response.kind = "Exception"
    THEN [text |-> raw_ocr_text, error |-> ErrGeminiRestore, requested |-> TRUE]
    ELSE [text |-> Strip(response.text), error |-> NoError, requested |-> TRUE]

\* a deviation from the code: stage 2 runs before the stage-1 error is looked at
run_answer_ocr_restore_first(environment, naver, gemini) ==
    LET stage1 == run_naver_ocr(environment, naver)
        stage2 == run_gemini_restore(stage1.raw_text, environment, gemini)
    IN IF stage1.error # NoError
       THEN [text |-> <<>>, confidence |-> 0, error |-> stage1.error,
             raw_text |-> stage1.raw_text,
             calls |-> (IF stage1.posted THEN <<"naver_ocr">> ELSE <<>>)
                        \o <<"run_gemini_restore">>
                        \o (IF stage2.requested THEN <<"gemini_restore">> ELSE <<>>),
             warnings |-> {}]
       ELSE [text |-> stage2.text, confidence |-> 90, error |-> NoError,
             raw_text |-> stage1.raw_text,
             calls |-> <<"naver_ocr", "run_gemini_restore">>
                        \o (IF stage2.requested THEN <<"gemini_restore">> ELSE <<>>),
             warnings |-> IF stage2.error # NoError THEN {stage2.error} ELSE {}]

\* (text, confidence, error) with confidence in hundredths (90 is 0.9), and
\* what the call did: the functions entered and requests issued after
\* run_naver_ocr was entered (calls), the stage-1 text (raw_text) and the
\* restore warning surfaced (warnings)
run_answer_ocr(environment, naver, gemini) ==
    LET stage1 == run_naver_ocr(environment, naver)
        stage2 == run_gemini_restore(stage1.raw_text, environment, gemini)
    IN IF stage1.error # NoError
       THEN [text |-> <<>>, confidence |-> 0, error |-> stage1.error,
             raw_text |-> stage1.raw_text,
             calls |-> IF stage1.posted THEN <<"naver_ocr">> ELSE <<>>,
             warnings |-> {}]
       ELSE [text |-> stage2.text, confidence |-> 90, error |-> NoError,
             raw_text |-> stage1.raw_text,
             calls |-> <<"naver_ocr", "run_gemini_restore">>
                        \o (IF stage2.requested THEN <<"gemini_restore">> ELSE <<>>),
             warnings |-> IF stage2.error # NoError THEN {stage2.error} ELSE {}]

-----------------------------------------------------------------------------
(* Header recognition: run_header_ocr *)

ErrNeedApiKey == "GOOGLE_API_KEY required"
ErrHeaderException == "header recognition raised"

\* d.get(key, default)
Get(d, key, default) == IF key \in DOMAIN d THEN d[key] ELSE default

\* a header response is [kind, result]: kind "json" with the dict json.loads
\* returns, "unparsable" when json.loads raises, "Exception" when the request
\* raises.  The returned dict carries the key "error" on failure.
run_header_ocr(environment, response) ==
    IF ~environment.api_key THEN [error |-> ErrNeedApiKey]
    ELSE IF response.kind # "json" THEN [error |-> ErrHeaderException]
    ELSE LET result == response.result
             academy == Get(result, "academy", <<>>)
         IN IF "academy" \in DOMAIN result
            THEN [result EXCEPT !["academy"] = map_academy(academy)]
            ELSE result

-----------------------------------------------------------------------------
(* Reference material: get_lesson_prompt *)

Digits == <<"0", "1", "2", "3", "4", "5", "6", "7", "8", "9">>

IsDigit(c) == \E d \in 1..Len(Digits) : Digits[d] = c

DigitValue(c) == (CHOOSE d \in 1..Len(Digits) : Digits[d] = c) - 1

\* int(cell) raises ValueError unless the stripped cell is a digit string
IsInt(cell) ==
    LET t == Strip(cell)
    IN t # <<>> /\ \A k \in 1..Len(t) : IsDigit(t[k])

RECURSIVE DigitsValue(_)
DigitsValue(t) ==
    IF t = <<>> THEN 0
    ELSE 10 * DigitsValue(SubSeq(t, 1, Len(t) - 1)) + DigitValue(t[Len(t)])

\* int(cell) if cell else 0
IntOrZero(cell) == IF cell = <<>> THEN 0 ELSE DigitsValue(Strip(cell))

Cell(row, k) == IF Len(row) >= k THEN row[k] ELSE <<>>

\* a deviation from the code: a row whose lesson or question cell is not an
\* integer ends the scan
RECURSIVE PromptLoopStops(_, _, _, _)
PromptLoopStops(all_data, i, lesson_num, question_num) ==
    IF i > Len(all_data) THEN <<>>
    ELSE LET row == all_data[i]
         IN IF Len(row) < 2 THEN PromptLoopStops(all_data, i + 1, lesson_num, question_num)
            ELSE IF ~((row[1] = <<>> \/ IsInt(row[1])) /\ (row[2] = <<>> \/ IsInt(row[2])))
            THEN <<>>
            ELSE IF IntOrZero(row[1]) = lesson_num /\ IntOrZero(row[2]) = question_num
            THEN <<[question |-> Cell(row, 3), passage |-> Cell(row, 4),
                    rubric |-> Cell(row, 5), model_answer |-> Cell(row, 6)]>>
            ELSE PromptLoopStops(all_data, i + 1, lesson_num, question_num)

\* for row in all_data[1:], from sheet row i (1-based) on; <<>> is {}
RECURSIVE PromptLoop(_, _, _, _)
PromptLoop(all_data, i, lesson_num, question_num) ==
    IF i > Len(all_data) THEN <<>>
    ELSE LET row == all_data[i]
         IN IF /\ Len(row) >= 2
               /\ (row[1] = <<>> \/ IsInt(row[1]))
               /\ (row[2] = <<>> \/ IsInt(row[2]))
               /\ IntOrZero(row[1]) = lesson_num
               /\ IntOrZero(row[2]) = question_num
            THEN <<[question |-> Cell(row, 3), passage |-> Cell(row, 4),
                    rubric |-> Cell(row, 5), model_answer |-> Cell(row, 6)]>>
            ELSE PromptLoop(all_data, i + 1, lesson_num, question_num)

get_lesson_prompt(sheet, lesson_num, question_num) ==
    IF ~sheet.ok THEN <<>>
    ELSE PromptLoop(sheet.all_data, 2, lesson_num, question_num)

-----------------------------------------------------------------------------
(* The spreadsheet behind the client: one roster sheet per lesson and the   *)
(* reference sheet                                                          *)

GimCheolSu == <<"gim", "cheol", "su">>
CheolSu == <<"cheol", "su">>
YeongHui == <<"yeong", "hui">>

RosterSheet(lesson_num) ==
    IF lesson_num = 1
    THEN << <<Ireum>>, <<GimCheolSu>>, <<CheolSu>> >>
    ELSE << <<HaksaengIreum>>, <<YeongHui>>, <<CheolSu>> >>

ReferenceSheet ==
    << << <<"gang">>, <<"mun", "hang">>, <<"mun", "je">> >>,
       << <<"1">>, <<"1">>, <<"q", "1", "1">>, <<"p">>, <<"r">>, <<"m">> >>,
       << <<"x">>, <<"2">>, <<"q", "x">> >>,
       << <<"1">>, <<"2">>, <<"q", "1", "2">> >>,
       << <<"2">>, <<"1">>, <<"q", "2", "1">>, <<"p">> >> >>

\* worksheet(...).get_all_values(): the rows, or an exception (ok = FALSE)
ReadRoster(lesson_num, ok) == [ok |-> ok, all_data |-> RosterSheet(lesson_num)]
ReadReference(ok) == [ok |-> ok, all_data |-> ReferenceSheet]

-----------------------------------------------------------------------------
(* process_pdf                                                              *)

NoResponse == [kind |-> "none"]

\* ui holds the header, student-info, OCR and restore messages; a crop
\* failure shows in last.ocr_image.
\* o is what the outside world answers during one loop iteration:
\*   header1, header2 : the two header responses (odd pages)
\*   reference_ok, roster_ok : whether the sheet reads succeed
\*   crop_ok : whether crop_answer_area returns
\*   naver, gemini : the OCR and restoration responses
Message(level, what, page_num) == [level |-> level, what |-> what, page |-> page_num]

Status(student_row) == IF student_row # 0 THEN "matched" ELSE "unmatched"

\* the dict appended to students_data; images holds the page's own image
AnswerRecord(student_name, lesson_num, question_num, academy, student_row, prompt_data, page_num, ocr) ==
    [name |-> student_name,
     lesson |-> lesson_num,
     question_num |-> question_num,
     academy |-> academy,
     row |-> student_row,
     prompt_data |-> prompt_data,
     pages |-> <<page_num>>,
     images |-> <<page_num>>,
     status |-> Status(student_row),
     text |-> ocr.text,
     confidence |-> ocr.confidence]

\* a deviation from the code: parity taken from the 0-based loop index
IsOddOfIndex(page_num) == (page_num - 1) % 2 = 1

\* is_odd = (page_num % 2 == 1)
IsOdd(page_num) == page_num % 2 = 1

\* a deviation from the code: an OCR error drops what was collected so far
AppendedOrReset(data, error, record) ==
    IF error # NoError THEN <<>> ELSE Append(data, record)

\* if error: st.error(...) else: students_data.append({...})
Appended(data, error, record) ==
    IF error # NoError THEN data ELSE Append(data, record)

\* a deviation from the code: the academy is not carried to question 2
ContextIdentityNoAcademy(info) == [name |-> info.name, academy |-> <<>>]

\* student_name, academy = current_student_info["name"], ["academy"]
ContextIdentity(info) == [name |-> info.name, academy |-> info.academy]

\* a deviation from the code: after a crop failure there is no image to read
CroppedOrNone(crop_ok) == IF crop_ok THEN "cropped" ELSE "none"

\* try: cropped_img = crop_answer_area(...) except: cropped_img = image_bytes;
\* the image run_answer_ocr is given
CroppedOrPage(crop_ok) == IF crop_ok THEN "cropped" ELSE "page"

\* the crop / OCR / append tail shared by both branches
SlotMessages(page_num, o, ocr) ==
    (IF ocr.error # NoError THEN {Message("error", "ocr", page_num)} ELSE {})
        \cup {Message("warning", "restore", page_num) : w \in ocr.warnings}

\* a deviation from the code: the roster is read after the OCR
SlotStagesMatchLast(student_name, ocr) ==
    <<"get_lesson_prompt", "crop_answer_area", "run_answer_ocr">>
        \o ocr.calls
        \o (IF spreadsheet /\ student_name # <<>> THEN <<"find_student_row">> ELSE <<>>)

\* the calls of one slot in the order they are made: 2) reference material,
\* 3) student row, 4) crop, 5) answer OCR and what it calls
SlotStages(student_name, ocr) ==
    <<"get_lesson_prompt">>
        \o (IF spreadsheet /\ student_name # <<>> THEN <<"find_student_row">> ELSE <<>>)
        \o <<"crop_answer_area", "run_answer_ocr">>
        \o ocr.calls

\* a deviation from the code: no context without a recognised name
StudentInfoIfNamed(student_name, lesson_num, academy) ==
    IF student_name = <<>> THEN <<>>
    ELSE <<[name |-> student_name, lesson |-> lesson_num, academy |-> academy]>>

\* current_student_info = {"name": ..., "lesson": ..., "academy": ...}
StudentInfo(student_name, lesson_num, academy) ==
    <<[name |-> student_name, lesson |-> lesson_num, academy |-> academy]>>

\* if is_odd: header OCR and question 1
OddPage(page_num, o) ==
    LET first_header == run_header_ocr(env, o.header1)
        header_info == run_header_ocr(env, o.header2)
        failed == "error" \in DOMAIN header_info
        student_name == IF failed THEN <<>> ELSE Get(header_info, "name", <<>>)
        academy == IF failed THEN <<>> ELSE Get(header_info, "academy", <<>>)
        prompt_data_q1 ==
            IF spreadsheet THEN get_lesson_prompt(ReadReference(o.reference_ok), lesson, 1)
            ELSE <<>>
        student_row ==
            IF spreadsheet /\ student_name # <<>>
            THEN find_student_row(ReadRoster(lesson, o.roster_ok), student_name)
            ELSE 0
        ocr == run_answer_ocr(env, o.naver, o.gemini)
    IN /\ current_student_info' = StudentInfo(student_name, lesson, academy)
       /\ students_data' =
            Appended(students_data, ocr.error,
                     AnswerRecord(student_name, lesson, 1, academy, student_row,
                                  prompt_data_q1, page_num, ocr))
       /\ ui' = ui \cup (IF failed THEN {Message("warning", "header", page_num)} ELSE {})
                   \cup SlotMessages(page_num, o, ocr)
       /\ last' = [page |-> page_num,
                   header_requests |-> IF env.api_key THEN 2 ELSE 0,
                   stages |-> <<"run_header_ocr", "run_header_ocr">>
                                \o SlotStages(student_name, ocr),
                   crop |-> IF o.crop_ok THEN "ok" ELSE "Exception",
                   ocr_image |-> CroppedOrPage(o.crop_ok),
                   naver |-> o.naver,
                   gemini |-> o.gemini,
                   ocr |-> <<[text |-> ocr.text, confidence |-> ocr.confidence,
                              error |-> ocr.error]>>]

\* else: question 2 of the student of the previous odd page
EvenPage(page_num, o) ==
    IF current_student_info = <<>>
    THEN /\ ui' = ui \cup {Message("warning", "no_student_info", page_num)}
         /\ last' = [page |-> page_num, header_requests |-> 0, stages |-> <<>>,
                     crop |-> "none", ocr_image |-> "none", naver |-> NoResponse,
                     gemini |-> NoResponse, ocr |-> <<>>]
         /\ UNCHANGED <<current_student_info, students_data>>
    ELSE
    LET student_name == ContextIdentity(current_student_info[1]).name
        academy == ContextIdentity(current_student_info[1]).academy
        prompt_data_q2 ==
            IF spreadsheet THEN get_lesson_prompt(ReadReference(o.reference_ok), lesson, 2)
            ELSE <<>>
        student_row ==
            IF spreadsheet /\ student_name # <<>>
            THEN find_student_row(ReadRoster(lesson, o.roster_ok), student_name)
            ELSE 0
        ocr == run_answer_ocr(env, o.naver, o.gemini)
    IN /\ students_data' =
            Appended(students_data, ocr.error,
                     AnswerRecord(student_name, lesson, 2, academy, student_row,
                                  prompt_data_q2, page_num, ocr))
       /\ ui' = ui \cup SlotMessages(page_num, o, ocr)
       /\ last' = [page |-> page_num,
                   header_requests |-> 0,
                   stages |-> SlotStages(student_name, ocr),
                   crop |-> IF o.crop_ok THEN "ok" ELSE "Exception",
                   ocr_image |-> CroppedOrPage(o.crop_ok),
                   naver |-> o.naver,
                   gemini |-> o.gemini,
                   ocr |-> <<[text |-> ocr.text, confidence |-> ocr.confidence,
                              error |-> ocr.error]>>]
       /\ UNCHANGED current_student_info

-----------------------------------------------------------------------------
(* The variables of a function applied on its own, at rest *)

AcademyIdle == academy_in = <<>> /\ academy_ret = <<>>
RosterIdle ==
    /\ sheet_in = [ok |-> FALSE, all_data |-> <<>>]
    /\ name_in = <<>>
    /\ row_ret = <<>>

OcrIdle ==
    /\ ocr_in = [env |-> [api_url |-> FALSE, secret_key |-> FALSE, api_key |-> FALSE],
                 naver |-> [kind |-> "Exception", fields |-> <<>>],
                 gemini |-> [kind |-> "Exception", text |-> <<>>]]
    /\ ocr_ret = <<>>

HeaderIdle ==
    /\ header_in = [env |-> [api_url |-> FALSE, secret_key |-> FALSE, api_key |-> FALSE],
                    response |-> [kind |-> "Exception"]]
    /\ header_ret = <<>>

PromptIdle ==
    /\ prompt_in = [sheet |-> [ok |-> FALSE, all_data |-> <<>>], lesson |-> 0,
                    question_num |-> 0]
    /\ prompt_ret = <<>>

\* crop ratios in hundredths: 3 is 0.03
DefaultCropQ1 == [left |-> 3, top |-> 15, right |-> 66, bottom |-> 74]
DefaultCropQ2 == [left |-> 3, top |-> 7, right |-> 66, bottom |-> 84]

\* the session-state defaults, no sample PDF in the uploader, the sliders
\* not rendered
CalibIdle ==
    /\ crop_coords_q1 = DefaultCropQ1
    /\ crop_coords_q2 = DefaultCropQ2
    /\ sliders = <<>>
    /\ sample_pages = 0
    /\ crop_used = <<>>

\* no cell written, no save done
SaveIdle ==
    /\ cells = [k \in {} |-> <<>>]
    /\ last_save = <<>>

-----------------------------------------------------------------------------
(* main(): the "OCR" button, and process_pdf taken one loop iteration at a  *)
(* time                                                                     *)

Lessons == {1, 2}

\* the lesson selected for the uploads of the process_pdf specification
UploadLesson == 2

Environments == [api_url : BOOLEAN, secret_key : BOOLEAN, api_key : BOOLEAN]

NoLast ==
    [page |-> 0, header_requests |-> 0, stages |-> <<>>, crop |-> "none",
     ocr_image |-> "none",
     naver |-> NoResponse, gemini |-> NoResponse, ocr |-> <<>>]

\* the script at rest: no document being processed
AtRest ==
    /\ pc = "main"
    /\ lesson = 0
    /\ images = 0
    /\ idx = 0
    /\ current_student_info = <<>>
    /\ students_data = <<>>
    /\ ui = {}
    /\ last = NoLast

PdfIdle ==
    /\ env = [api_url |-> FALSE, secret_key |-> FALSE, api_key |-> FALSE]
    /\ spreadsheet = FALSE
    /\ AtRest
    /\ session_students_data = <<>>
    /\ processing_complete = FALSE

\* session start: the settings that are present, the Sheets client connected
\* or not, and the session-state defaults
InitMain ==
    /\ env \in Environments
    /\ spreadsheet \in BOOLEAN
    /\ AtRest
    /\ session_students_data = <<>>
    /\ processing_complete = FALSE

\* if uploaded_file and spreadsheet: ... st.button: process_pdf is entered with
\* a document that renders to n pages (0 when rendering fails)
ClickProcess(n, selected_lesson) ==
    /\ pc = "main"
    /\ spreadsheet
    /\ lesson' = selected_lesson
    /\ images' = n
    /\ idx' = 0
    /\ current_student_info' = <<>>
    /\ students_data' = <<>>
    /\ last' = NoLast
    /\ IF n = 0
       THEN /\ ui' = {Message("error", "no_images", 0)}
            /\ pc' = "returned"
       ELSE /\ ui' = {}
            /\ pc' = "loop"
    /\ UNCHANGED <<env, spreadsheet, session_students_data, processing_complete>>

\* the responses a request can get; a request that is not issued gets none
HeaderResponses ==
    {[kind |-> "Exception"],
     [kind |-> "json",
      result |-> [name |-> CheolSu, lesson |-> 1, question_num |-> 1,
                  academy |-> <<"bun", "dang">>]],
     [kind |-> "json",
      result |-> [name |-> <<>>, lesson |-> 0, question_num |-> 0,
                  academy |-> <<"B">>]]}

PageNaverResponses ==
    {[kind |-> "RequestException", fields |-> <<>>],
     [kind |-> "ok", fields |-> <<>>],
     [kind |-> "ok", fields |-> << <<"x">> >>]}

PageGeminiResponses ==
    {[kind |-> "Exception", text |-> <<>>], [kind |-> "ok", text |-> <<"w">>]}

HeaderResponsesFor(environment, responses) ==
    IF environment.api_key THEN responses ELSE {NoResponse}

NaverResponsesFor(environment, responses) ==
    IF environment.api_url /\ environment.secret_key THEN responses ELSE {NoResponse}

GeminiResponsesFor(environment, naver, responses) ==
    IF environment.api_key /\ naver.kind = "ok" THEN responses ELSE {NoResponse}

\* a deviation from the code: a crop failure is not caught
UncaughtCrop(o) == ~o.crop_ok

\* whether an outcome of the external calls leaves process_pdf as an
\* exception: every call site or callee catches Exception (header request,
\* sheet reads, crop, OCR request, restoration request), so none does
Uncaught(o) == FALSE

\* one iteration of the for loop on an odd page, the responses drawn from
\* the given sets; a roster read happens only for a non-empty name
ProcessOddPage(headers, flags, navers, geminis) ==
    /\ pc = "loop"
    /\ idx < images
    /\ IsOdd(idx + 1)
    /\ \E h1 \in HeaderResponsesFor(env, {[kind |-> "Exception"]}),
          h2 \in HeaderResponsesFor(env, headers),
          ref_ok \in flags, crop_ok \in flags,
          nv \in NaverResponsesFor(env, navers) :
        \E gm \in GeminiResponsesFor(env, nv, geminis),
           ros_ok \in IF "name" \in DOMAIN run_header_ocr(env, h2)
                         /\ run_header_ocr(env, h2).name # <<>>
                      THEN BOOLEAN ELSE {TRUE} :
            LET o == [header1 |-> h1, header2 |-> h2,
                      reference_ok |-> ref_ok, roster_ok |-> ros_ok,
                      crop_ok |-> crop_ok, naver |-> nv, gemini |-> gm]
            IN IF Uncaught(o)
               THEN /\ pc' = "raised"
                    /\ UNCHANGED <<idx, current_student_info, students_data, ui, last>>
               ELSE /\ OddPage(idx + 1, o)
                    /\ idx' = idx + 1
                    /\ pc' = pc
    /\ UNCHANGED <<env, spreadsheet, lesson, images,
                   session_students_data, processing_complete>>

\* one iteration of the for loop on an even page
ProcessEvenPage(flags, navers, geminis) ==
    /\ pc = "loop"
    /\ idx < images
    /\ ~IsOdd(idx + 1)
    /\ \E ref_ok \in flags, crop_ok \in flags,
          nv \in NaverResponsesFor(env, navers) :
        \E gm \in GeminiResponsesFor(env, nv, geminis),
           ros_ok \in IF current_student_info # <<>>
                         /\ current_student_info[1].name # <<>>
                      THEN BOOLEAN ELSE {TRUE} :
            LET o == [reference_ok |-> ref_ok, roster_ok |-> ros_ok,
                      crop_ok |-> crop_ok, naver |-> nv, gemini |-> gm]
            IN IF Uncaught(o)
               THEN /\ pc' = "raised"
                    /\ UNCHANGED <<idx, current_student_info, students_data, ui, last>>
               ELSE /\ EvenPage(idx + 1, o)
                    /\ idx' = idx + 1
                    /\ pc' = pc
    /\ UNCHANGED <<env, spreadsheet, lesson, images,
                   session_students_data, processing_complete>>

\* the loop is exhausted: return students_data
ReturnFromLoop ==
    /\ pc = "loop"
    /\ idx = images
    /\ pc' = "returned"
    /\ UNCHANGED <<env, spreadsheet, lesson, images, idx, current_student_info,
                   students_data, ui, last, session_students_data,
                   processing_complete>>

\* a deviation from the code: the result is stored whatever it holds
StoreResultAlways ==
    /\ pc = "returned"
    /\ pc' = "done"
    /\ session_students_data' = students_data
    /\ processing_complete' = TRUE
    /\ UNCHANGED <<env, spreadsheet, lesson, images, idx, current_student_info,
                   students_data, ui, last>>

\* back in main(): if students_data: store it in the session
StoreResult ==
    /\ pc = "returned"
    /\ pc' = "done"
    /\ IF students_data # <<>>
       THEN /\ session_students_data' = students_data
            /\ processing_complete' = TRUE
       ELSE UNCHANGED <<session_students_data, processing_complete>>
    /\ UNCHANGED <<env, spreadsheet, lesson, images, idx, current_student_info,
                   students_data, ui, last>>

NextPdf ==
    \/ \E n \in 0..MaxPages :
        ClickProcess(n, UploadLesson) /\ UNCHANGED functionVars
    \/ ProcessOddPage(HeaderResponses, BOOLEAN, PageNaverResponses, PageGeminiResponses)
        /\ UNCHANGED functionVars
    \/ ProcessEvenPage(BOOLEAN, PageNaverResponses, PageGeminiResponses)
        /\ UNCHANGED functionVars
    \/ ReturnFromLoop /\ UNCHANGED functionVars
    \/ StoreResult /\ UNCHANGED functionVars

Init ==
    /\ InitMain
    /\ AcademyIdle /\ RosterIdle /\ OcrIdle
    /\ HeaderIdle /\ PromptIdle /\ CalibIdle /\ SaveIdle

Spec == Init /\ [][NextPdf]_vars

\* each external call failing or not: the header request, the two sheet
\* reads and the crop, the OCR request, the restoration request
LiveHeaderResponses ==
    {r \in HeaderResponses : r.kind = "json" => r.result.name # <<>>}

LiveNaverResponses == {r \in PageNaverResponses : r.kind = "ok" => r.fields # <<>>}

\* process_pdf runs synchronously once the button is clicked: the loop takes
\* its next iteration, or returns
LoopStep ==
    /\ \/ ProcessOddPage(LiveHeaderResponses, BOOLEAN, LiveNaverResponses,
                          PageGeminiResponses)
       \/ ProcessEvenPage(BOOLEAN, LiveNaverResponses, PageGeminiResponses)
       \/ ReturnFromLoop
    /\ UNCHANGED <<academyVars, rosterVars, ocrVars, headerVars, promptVars,
                   calibVars, saveVars>>

NextLive ==
    \/ \E n \in 0..MaxPages :
        /\ ClickProcess(n, UploadLesson)
        /\ UNCHANGED <<academyVars, rosterVars, ocrVars, headerVars, promptVars,
                       calibVars, saveVars>>
    \/ LoopStep
    \/ /\ StoreResult
       /\ UNCHANGED <<academyVars, rosterVars, ocrVars, headerVars, promptVars,
                      calibVars, saveVars>>

SpecLive == Init /\ [][NextLive]_vars /\ WF_vars(LoopStep)

-----------------------------------------------------------------------------
(* main(): the review step, one script run per widget change                *)

\* st.rerun() / the end of the script run: the handler's locals are gone
Rerun ==
    /\ pc = "done"
    /\ pc' = "main"
    /\ lesson' = 0
    /\ images' = 0
    /\ idx' = 0
    /\ current_student_info' = <<>>
    /\ students_data' = <<>>
    /\ ui' = {}
    /\ last' = NoLast
    /\ UNCHANGED <<env, spreadsheet, session_students_data, processing_complete>>

\* new_row = find_student_row(spreadsheet, new_lesson, new_name) if spreadsheet
\* else None
NewRow(sheet, new_name) ==
    IF spreadsheet THEN find_student_row(sheet, new_name) ELSE 0

\* a deviation from the code: a changed name re-reads the row and leaves the
\* status as it was
EditNameKeepsStatus(i, new_name) ==
    /\ pc = "main"
    /\ i \in 1..Len(session_students_data)
    /\ new_name # session_students_data[i].name
    /\ \E ros_ok \in BOOLEAN :
        LET new_lesson == session_students_data[i].lesson
            new_row == NewRow(ReadRoster(new_lesson, ros_ok), new_name)
        IN session_students_data' =
            [session_students_data EXCEPT ![i].name = new_name, ![i].row = new_row]
    /\ UNCHANGED <<env, spreadsheet, pc, lesson, images, idx, current_student_info,
                   students_data, ui, last, processing_complete>>

\* the "name" text input of record i holds new_name; the lesson widget holds
\* the record's lesson
EditName(i, new_name) ==
    /\ pc = "main"
    /\ i \in 1..Len(session_students_data)
    /\ new_name # session_students_data[i].name
    /\ \E ros_ok \in BOOLEAN :
        LET new_lesson == session_students_data[i].lesson
            new_row == NewRow(ReadRoster(new_lesson, ros_ok), new_name)
        IN session_students_data' =
            [session_students_data EXCEPT
                ![i].name = new_name,
                ![i].row = new_row,
                ![i].status = Status(new_row)]
    /\ UNCHANGED <<env, spreadsheet, pc, lesson, images, idx, current_student_info,
                   students_data, ui, last, processing_complete>>

\* the "lesson" number input of record i holds new_lesson
EditLesson(i, new_lesson) ==
    /\ pc = "main"
    /\ i \in 1..Len(session_students_data)
    /\ new_lesson # session_students_data[i].lesson
    /\ session_students_data' =
            [session_students_data EXCEPT ![i].lesson = new_lesson]
    /\ UNCHANGED <<env, spreadsheet, pc, lesson, images, idx, current_student_info,
                   students_data, ui, last, processing_complete>>

ReviewNames == {<<>>, CheolSu, YeongHui}

ReviewHeaderResponses ==
    {r \in HeaderResponses : r.kind = "json" => r.result.name # <<>>}

ReviewNaverResponses ==
    {[kind |-> "RequestException", fields |-> <<>>],
     [kind |-> "ok", fields |-> << <<"x">> >>]}

ReviewGeminiResponses == {[kind |-> "ok", text |-> <<"w">>]}

InitReview ==
    /\ env = [api_url |-> TRUE, secret_key |-> TRUE, api_key |-> TRUE]
    /\ spreadsheet = TRUE
    /\ AtRest
    /\ session_students_data = <<>>
    /\ processing_complete = FALSE
    /\ AcademyIdle /\ RosterIdle /\ OcrIdle
    /\ HeaderIdle /\ PromptIdle /\ CalibIdle /\ SaveIdle

\* a document that renders to pages is uploaded only while the session holds
\* no records; an upload that renders to nothing can come at any time
NextReview ==
    \/ \E n \in 0..MaxReviewPages, l \in Lessons :
        /\ n = 0 \/ session_students_data = <<>>
        /\ ClickProcess(n, l)
        /\ UNCHANGED functionVars
    \/ ProcessOddPage(ReviewHeaderResponses, {TRUE}, ReviewNaverResponses,
                      ReviewGeminiResponses)
        /\ UNCHANGED functionVars
    \/ ProcessEvenPage({TRUE}, ReviewNaverResponses, ReviewGeminiResponses)
        /\ UNCHANGED functionVars
    \/ ReturnFromLoop /\ UNCHANGED functionVars
    \/ StoreResult /\ UNCHANGED functionVars
    \/ Rerun /\ UNCHANGED functionVars
    \/ \E i \in 1..MaxReviewPages, n \in ReviewNames :
        EditName(i, n) /\ UNCHANGED functionVars
    \/ \E i \in 1..MaxReviewPages, l \in Lessons :
        EditLesson(i, l) /\ UNCHANGED functionVars

SpecReview == InitReview /\ [][NextReview]_vars

-----------------------------------------------------------------------------
(* main(): document after document in one session, without review edits     *)

NextRerun ==
    \/ \E n \in 0..MaxReviewPages :
        ClickProcess(n, UploadLesson) /\ UNCHANGED functionVars
    \/ ProcessOddPage(ReviewHeaderResponses, {TRUE}, ReviewNaverResponses,
                      ReviewGeminiResponses)
        /\ UNCHANGED functionVars
    \/ ProcessEvenPage({TRUE}, ReviewNaverResponses, ReviewGeminiResponses)
        /\ UNCHANGED functionVars
    \/ ReturnFromLoop /\ UNCHANGED functionVars
    \/ StoreResult /\ UNCHANGED functionVars
    \/ Rerun /\ UNCHANGED functionVars

SpecRerun == InitReview /\ [][NextRerun]_vars

-----------------------------------------------------------------------------
(* Specification of the academy mapping on enumerated recognised values *)

AcademyPieces ==
    {ACADEMY_MAPPING[k][1] : k \in 1..Len(ACADEMY_MAPPING)}
        \cup {<<" ">>, <<"B">>, <<"b">>, <<"dae">>, <<"sel">>}

RECURSIVE Concats(_)
Concats(n) ==
    IF n = 0 THEN {<<>>}
    ELSE LET shorter == Concats(n - 1)
         IN shorter \cup {s \o p : s \in shorter, p \in AcademyPieces}

AcademyInputs == Concats(MaxPieces)

\* <<>>: not yet returned; <<v>>: returned v
InitAcademy ==
    /\ academy_in \in AcademyInputs
    /\ academy_ret = <<>>

ApplyMapping ==
    /\ academy_ret = <<>>
    /\ academy_ret' = <<map_academy(academy_in)>>
    /\ UNCHANGED <<academy_in, rosterVars, ocrVars, pdfVars,
                   headerVars, promptVars, calibVars, saveVars>>

NextAcademy == ApplyMapping

InitAcademySpec == InitAcademy /\ RosterIdle /\ OcrIdle /\ PdfIdle
    /\ HeaderIdle /\ PromptIdle /\ CalibIdle /\ SaveIdle

SpecAcademy == InitAcademySpec /\ [][NextAcademy]_vars

-----------------------------------------------------------------------------
(* Specification of find_student_row on enumerated sheets and names *)

RosterRows ==
    {<<>>, <<<<>>>>, <<Ireum>>, <<GimCheolSu>>, <<CheolSu>>,
     <<<<" ", "cheol", "su", " ">>>>, <<<<"B", "o">>, <<"gim">>>>}

RECURSIVE SheetsOf(_)
SheetsOf(n) ==
    IF n = 0 THEN {<<>>}
    ELSE LET shorter == SheetsOf(n - 1)
         IN shorter \cup {Append(d, r) : d \in shorter, r \in RosterRows}

RecognizedNames == {<<>>, CheolSu, GimCheolSu, <<"su">>, <<"b", "o">>}

InitRoster ==
    /\ sheet_in \in [ok : BOOLEAN, all_data : SheetsOf(MaxRows)]
    /\ name_in \in RecognizedNames
    /\ row_ret = <<>>

ApplyFind ==
    /\ row_ret = <<>>
    /\ row_ret' = <<find_student_row(sheet_in, name_in)>>
    /\ UNCHANGED <<sheet_in, name_in, academyVars, ocrVars, pdfVars,
                   headerVars, promptVars, calibVars, saveVars>>

NextRoster == ApplyFind

InitRosterSpec == InitRoster /\ AcademyIdle /\ OcrIdle /\ PdfIdle
    /\ HeaderIdle /\ PromptIdle /\ CalibIdle /\ SaveIdle

SpecRoster == InitRosterSpec /\ [][NextRoster]_vars

-----------------------------------------------------------------------------
(* Specification of run_answer_ocr on enumerated environments and responses *)

Fragments == {<<>>, <<"x">>, <<"y", "z">>}

RECURSIVE FieldsOf(_)
FieldsOf(n) ==
    IF n = 0 THEN {<<>>}
    ELSE LET shorter == FieldsOf(n - 1)
         IN shorter \cup {Append(f, t) : f \in shorter, t \in Fragments}

NaverResponses ==
    {[kind |-> k, fields |-> <<>>] : k \in {"RequestException", "Exception"}}
        \cup {[kind |-> "ok", fields |-> f] : f \in FieldsOf(MaxFields)}

GeminiResponses ==
    {[kind |-> "Exception", text |-> <<>>]}
        \cup {[kind |-> "ok", text |-> t] : t \in {<<>>, <<"x">>, <<" ", "w", " ">>}}

InitOcr ==
    /\ ocr_in \in [env : Environments, naver : NaverResponses, gemini : GeminiResponses]
    /\ ocr_ret = <<>>

ApplyAnswerOcr ==
    /\ ocr_ret = <<>>
    /\ ocr_ret' = <<run_answer_ocr(ocr_in.env, ocr_in.naver, ocr_in.gemini)>>
    /\ UNCHANGED <<ocr_in, academyVars, rosterVars, pdfVars,
                   headerVars, promptVars, calibVars, saveVars>>

NextOcr == ApplyAnswerOcr

InitOcrSpec == InitOcr /\ AcademyIdle /\ RosterIdle /\ PdfIdle
    /\ HeaderIdle /\ PromptIdle /\ CalibIdle /\ SaveIdle

SpecOcr == InitOcrSpec /\ [][NextOcr]_vars

-----------------------------------------------------------------------------
(* Specification of run_header_ocr on enumerated environments and responses *)

HeaderKeys == {"name", "lesson", "question_num", "academy"}

\* the dicts json.loads can return: any subset of the four keys
ParsedResults ==
    {[k \in K |-> full[k]] :
        K \in SUBSET HeaderKeys,
        full \in [name : {<<>>, CheolSu}, lesson : {1}, question_num : {1},
                  academy : {<<"bun", "dang">>, <<"B">>}]}

HeaderInputs ==
    {[kind |-> "Exception"], [kind |-> "unparsable"]}
        \cup {[kind |-> "json", result |-> r] : r \in ParsedResults}

InitHeader ==
    /\ header_in \in [env : Environments, response : HeaderInputs]
    /\ header_ret = <<>>

ApplyHeaderOcr ==
    /\ header_ret = <<>>
    /\ header_ret' = <<run_header_ocr(header_in.env, header_in.response)>>
    /\ UNCHANGED <<header_in, academyVars, rosterVars, ocrVars, pdfVars,
                   promptVars, calibVars, saveVars>>

NextHeader == ApplyHeaderOcr

InitHeaderSpec ==
    /\ InitHeader
    /\ AcademyIdle /\ RosterIdle /\ OcrIdle /\ PdfIdle
    /\ PromptIdle /\ CalibIdle /\ SaveIdle

SpecHeader == InitHeaderSpec /\ [][NextHeader]_vars

-----------------------------------------------------------------------------
(* main(): the calibration expander of the sidebar, and crop_answer_area.   *)
(* A ratio is kept in hundredths: the float k / 100 is the integer k.       *)

\* number of pages of a sample PDF
MaxSamplePages == 2

Slots == {"q1", "q2"}
Sides == {"left", "top", "right", "bottom"}

\* the hundredths k for which the float (k / 100) * 100 is below k, so that
\* int() gives k - 1: 0.29 * 100 = 28.999999999999996, and 0.57, 0.58 alike
TruncatedHundredths == {29, 57, 58}

\* int(coords[side] * 100)
IntOfPercent(k) == IF k \in TruncatedHundredths THEN k - 1 ELSE k

\* st.slider(label, min, max, value): the positions a slider is moved to
SliderChoices(side) ==
    CASE side = "left" -> {3, 29, 30}
      [] side = "top" -> {7, 15}
      [] side = "right" -> {57, 66, 100}
      [] side = "bottom" -> {74, 84}

\* a slider that was not rendered in the previous run is created with its
\* value argument
CreatedSliders(coords) == [side \in Sides |-> IntOfPercent(coords[side])]

CoordsOf(slot) == IF slot = "q1" THEN crop_coords_q1 ELSE crop_coords_q2

\* one script run of the expander with the given sample and widget states:
\* with a sample of two pages or more the sliders are rendered and both
\* regions are stored from them ({"left": left1 / 100, ...}); otherwise the
\* sliders are not rendered and their state is dropped
RunExpander(pages, widgets) ==
    IF pages >= 2
    THEN LET rendered ==
                IF widgets # <<>> THEN widgets[1]
                ELSE [slot \in Slots |-> CreatedSliders(CoordsOf(slot))]
         IN /\ sliders' = <<rendered>>
            /\ crop_coords_q1' = rendered["q1"]
            /\ crop_coords_q2' = rendered["q2"]
            /\ crop_used' = <<[slot |-> "q2", coords |-> rendered["q2"]]>>
    ELSE /\ sliders' = <<>>
         /\ UNCHANGED <<crop_coords_q1, crop_coords_q2, crop_used>>

\* the sample uploader gets a PDF of n pages, or is cleared (n = 0)
UploadSample(n) ==
    /\ n # sample_pages
    /\ sample_pages' = n
    /\ RunExpander(n, sliders)
    /\ UNCHANGED <<academyVars, rosterVars, ocrVars, pdfVars, headerVars,
                   promptVars, saveVars>>

\* one slider of one slot is moved to v
SetSlider(slot, side, v) ==
    /\ sliders # <<>>
    /\ v # sliders[1][slot][side]
    /\ RunExpander(sample_pages, <<[sliders[1] EXCEPT ![slot][side] = v]>>)
    /\ UNCHANGED <<sample_pages, academyVars, rosterVars, ocrVars, pdfVars,
                   headerVars, promptVars, saveVars>>

\* crop_answer_area(image_bytes, is_page1) as process_pdf calls it: the
\* region is read from the session state
CropAnswerArea(is_page1) ==
    LET slot == IF is_page1 THEN "q1" ELSE "q2"
    IN /\ crop_used' = <<[slot |-> slot, coords |-> CoordsOf(slot)]>>
       /\ crop_used' # crop_used
       /\ UNCHANGED <<crop_coords_q1, crop_coords_q2, sliders, sample_pages,
                      academyVars, rosterVars, ocrVars, pdfVars, headerVars,
                      promptVars, saveVars>>

NextCalib ==
    \/ \E n \in 0..MaxSamplePages : UploadSample(n)
    \/ \E slot \in Slots, side \in Sides :
        \E v \in SliderChoices(side) : SetSlider(slot, side, v)
    \/ \E is_page1 \in BOOLEAN : CropAnswerArea(is_page1)

InitCalibSpec ==
    /\ CalibIdle
    /\ AcademyIdle /\ RosterIdle /\ OcrIdle /\ PdfIdle
    /\ HeaderIdle /\ PromptIdle /\ SaveIdle

SpecCalib == InitCalibSpec /\ [][NextCalib]_vars

-----------------------------------------------------------------------------
(* main(): the save button, and save_ocr_to_sheet.  A cell of the           *)
(* spreadsheet is <<lesson, row, col>>, the lesson naming the worksheet.    *)

\* number of records in a session that is saved
MaxSaved == 2

\* sheet.update_cell(row, col, text)
update_cell(sheet_cells, lesson_num, row, col, text) ==
    [k \in DOMAIN sheet_cells \cup {<<lesson_num, row, col>>} |->
        IF k = <<lesson_num, row, col>> THEN text ELSE sheet_cells[k]]

\* a deviation from the code: every question is written to column H
save_ocr_to_sheet_col_h(sheet_cells, lesson_num, row, question_num, text, ok) ==
    IF ok
    THEN [cells |-> update_cell(sheet_cells, lesson_num, row, 8, text), success |-> TRUE]
    ELSE [cells |-> sheet_cells, success |-> FALSE]

\* col = 8 if question_num == 1 else 15; ok = FALSE when the worksheet
\* lookup or the update raises
save_ocr_to_sheet(sheet_cells, lesson_num, row, question_num, text, ok) ==
    IF ok
    THEN [cells |-> update_cell(sheet_cells, lesson_num, row,
                                IF question_num = 1 THEN 8 ELSE 15, text),
          success |-> TRUE]
    ELSE [cells |-> sheet_cells, success |-> FALSE]

\* if student['row'] and student.get('text')
Saveable(student) == student.row # 0 /\ student.text # <<>>

\* for student in students_data, from record k on: the cells and which
\* records were written
RECURSIVE SaveLoop(_, _, _, _, _)
SaveLoop(data, k, oks, sheet_cells, written) ==
    IF k > Len(data) THEN [cells |-> sheet_cells, written |-> written]
    ELSE IF ~Saveable(data[k])
         THEN SaveLoop(data, k + 1, oks, sheet_cells, Append(written, FALSE))
         ELSE LET saved == save_ocr_to_sheet(sheet_cells, data[k].lesson, data[k].row,
                                             data[k].question_num, data[k].text, oks[k])
              IN SaveLoop(data, k + 1, oks, saved.cells, Append(written, saved.success))

\* the save button is clicked; it is disabled when no record has a row.
\* oks[k] tells whether the write for record k goes through
Save(oks) ==
    /\ pc = "main"
    /\ session_students_data # <<>>
    /\ \E k \in 1..Len(session_students_data) : session_students_data[k].row # 0
    /\ last_save = <<>>
    /\ \A k \in 1..Len(session_students_data) :
        ~Saveable(session_students_data[k]) => oks[k]
    /\ LET done == SaveLoop(session_students_data, 1, oks, cells, <<>>)
       IN /\ cells' = done.cells
          /\ last_save' = <<done.written>>
    /\ UNCHANGED <<pdfVars, academyVars, rosterVars, ocrVars, headerVars,
                   promptVars, calibVars>>

\* the records a reviewed session can hold: lesson and question as the
\* number inputs allow, a matched row or none, the text as edited
ReviewedRecords ==
    {AnswerRecord(CheolSu, l, q, BundangRussel, r, <<>>, 1, [text |-> t, confidence |-> 90]) :
        l \in Lessons, q \in {1, 2, 3}, r \in {0, 2}, t \in {<<>>, <<"x">>, <<"w">>}}

InitSaveSpec ==
    /\ env = [api_url |-> TRUE, secret_key |-> TRUE, api_key |-> TRUE]
    /\ spreadsheet = TRUE
    /\ AtRest
    /\ session_students_data \in ListsOf(ReviewedRecords, MaxSaved) \ {<<>>}
    /\ processing_complete = TRUE
    /\ AcademyIdle /\ RosterIdle /\ OcrIdle
    /\ HeaderIdle /\ PromptIdle /\ CalibIdle /\ SaveIdle

NextSave ==
    \E oks \in [1..Len(session_students_data) -> BOOLEAN] : Save(oks)

SpecSave == InitSaveSpec /\ [][NextSave]_vars

-----------------------------------------------------------------------------
(* main(): a whole session: upload, review corrections, manual roster       *)
(* selection, save and reset                                                *)

\* the "question" number input of record i holds new_question
EditQuestion(i, new_question) ==
    /\ pc = "main"
    /\ i \in 1..Len(session_students_data)
    /\ new_question # session_students_data[i].question_num
    /\ session_students_data' =
            [session_students_data EXCEPT ![i].question_num = new_question]
    /\ UNCHANGED <<env, spreadsheet, pc, lesson, images, idx, current_student_info,
                   students_data, ui, last, processing_complete>>

\* the text area of record i holds edited_text
EditText(i, edited_text) ==
    /\ pc = "main"
    /\ i \in 1..Len(session_students_data)
    /\ edited_text # session_students_data[i].text
    /\ session_students_data' =
            [session_students_data EXCEPT ![i].text = edited_text]
    /\ UNCHANGED <<env, spreadsheet, pc, lesson, images, idx, current_student_info,
                   students_data, ui, last, processing_complete>>

\* the manual selectbox of record i, shown while the record has no row, holds
\* option k of the roster of the record's lesson
ManualSelect(i, k) ==
    /\ pc = "main"
    /\ i \in 1..Len(session_students_data)
    /\ session_students_data[i].row = 0
    /\ spreadsheet
    /\ \E ros_ok \in BOOLEAN :
        LET students_list ==
                get_students_list(ReadRoster(session_students_data[i].lesson, ros_ok))
        IN /\ k \in 1..Len(students_list)
           /\ session_students_data' =
                [session_students_data EXCEPT
                    ![i].row = students_list[k].row,
                    ![i].status = "matched"]
    /\ UNCHANGED <<env, spreadsheet, pc, lesson, images, idx, current_student_info,
                   students_data, ui, last, processing_complete>>

\* the reset button
Reset ==
    /\ pc = "main"
    /\ session_students_data # <<>>
    /\ session_students_data' = <<>>
    /\ processing_complete' = FALSE
    /\ UNCHANGED <<env, spreadsheet, pc, lesson, images, idx, current_student_info,
                   students_data, ui, last>>

\* what a reviewer types into the name, question and text fields
SessionNames == {YeongHui}
SessionQuestions == {3}
SessionTexts == {<<>>}

\* the header is read in the session specification
SessionHeaderResponses == {r \in ReviewHeaderResponses : r.kind = "json"}

\* number of pages of a document uploaded in the session specification
MaxSessionPages == 2

\* a correction of the session specification: the session is followed up to
\* its first save (a save leaves the records as they are)
BeforeSave == last_save = <<>>

\* a document is uploaded only while the session holds no records; every
\* write of the save goes through
NextSession ==
    \/ \E n \in 0..MaxSessionPages :
        /\ session_students_data = <<>>
        /\ ClickProcess(n, UploadLesson)
        /\ UNCHANGED functionVars
    \/ ProcessOddPage(SessionHeaderResponses, {TRUE}, ReviewNaverResponses,
                      ReviewGeminiResponses)
        /\ UNCHANGED functionVars
    \/ ProcessEvenPage({TRUE}, ReviewNaverResponses, ReviewGeminiResponses)
        /\ UNCHANGED functionVars
    \/ ReturnFromLoop /\ UNCHANGED functionVars
    \/ StoreResult /\ UNCHANGED functionVars
    \/ Rerun /\ UNCHANGED functionVars
    \/ \E i \in 1..MaxSessionPages, n \in SessionNames :
        BeforeSave /\ EditName(i, n) /\ UNCHANGED functionVars
    \/ \E i \in 1..MaxSessionPages, l \in Lessons :
        BeforeSave /\ EditLesson(i, l) /\ UNCHANGED functionVars
    \/ \E i \in 1..MaxSessionPages, q \in SessionQuestions :
        BeforeSave /\ EditQuestion(i, q) /\ UNCHANGED functionVars
    \/ \E i \in 1..MaxSessionPages, t \in SessionTexts :
        BeforeSave /\ EditText(i, t) /\ UNCHANGED functionVars
    \/ \E i \in 1..MaxSessionPages, k \in 1..MaxRows :
        BeforeSave /\ ManualSelect(i, k) /\ UNCHANGED functionVars
    \/ Save([k \in 1..Len(session_students_data) |-> TRUE])
    \/ BeforeSave /\ Reset /\ UNCHANGED functionVars

SpecSession == InitReview /\ [][NextSession]_vars

-----------------------------------------------------------------------------
(* Specification of get_lesson_prompt on enumerated reference sheets        *)

\* number of rows of an enumerated reference sheet, the header row included
MaxPromptRows == 3

\* rows of a reference sheet: lesson cell, question cell, question text, and
\* for one row the passage, rubric and model answer; rows with a cell that
\* is no integer, with an empty lesson cell, and with one cell only
PromptRows ==
    { << <<"1">>, <<"1">>, <<"a">> >>,
      << <<" ", "1">>, <<"1">>, <<"b">>, <<"p">>, <<"r">>, <<"m">> >>,
      << <<"1">>, <<"2">>, <<"c">> >>,
      << <<"2">>, <<"1">>, <<"d">> >>,
      << <<"x">>, <<"1">>, <<"e">> >>,
      << <<"1">>, <<"x">>, <<"f">> >>,
      << <<>>, <<"1">>, <<"g">> >>,
      << <<"1">> >> }

InitPrompt ==
    /\ prompt_in \in [sheet : [ok : BOOLEAN, all_data : ListsOf(PromptRows, MaxPromptRows)],
                      lesson : Lessons, question_num : {1, 2}]
    /\ prompt_ret = <<>>

ApplyLessonPrompt ==
    /\ prompt_ret = <<>>
    /\ prompt_ret' = <<get_lesson_prompt(prompt_in.sheet, prompt_in.lesson,
                                         prompt_in.question_num)>>
    /\ UNCHANGED <<prompt_in, academyVars, rosterVars, ocrVars, pdfVars,
                   headerVars, calibVars, saveVars>>

NextPrompt == ApplyLessonPrompt

InitPromptSpec ==
    /\ InitPrompt
    /\ AcademyIdle /\ RosterIdle /\ OcrIdle /\ PdfIdle
    /\ HeaderIdle /\ CalibIdle /\ SaveIdle

SpecPrompt == InitPromptSpec /\ [][NextPrompt]_vars

-----------------------------------------------------------------------------
(* C10: the mapped academy is the canonical name of the first table entry   *)
(* (in table order) whose alias is a substring of the recognised value      *)
(* with spaces removed and lower-cased, even when a later alias also        *)
(* matches; with no matching alias the recognised value is returned         *)
(* unchanged.                                                               *)

Normalized(s) == Lower(RemoveSpaces(s))

Matching(s) ==
    {k \in 1..Len(ACADEMY_MAPPING) : Contains(Normalized(s), ACADEMY_MAPPING[k][1])}

FirstOf(S) == CHOOSE k \in S : \A m \in S : k <= m

C10_FirstAliasWins ==
    academy_ret # <<>> =>
        IF Matching(academy_in) = {}
        THEN academy_ret[1] = academy_in
        ELSE academy_ret[1] = ACADEMY_MAPPING[FirstOf(Matching(academy_in))][2]

\* a value matched by two aliases with different canonical names was mapped
C10_Witness ==
    /\ academy_ret # <<>>
    /\ \E k, m \in Matching(academy_in) :
        /\ k < m
        /\ ACADEMY_MAPPING[k][2] # ACADEMY_MAPPING[m][2]
    /\ \E i \in 1..Len(academy_in) : academy_in[i] \in {" ", "B"}

-----------------------------------------------------------------------------
(* C7: for a non-empty recognised name n, find_student_row returns the row  *)
(* of the first roster entry, in roster order, whose name contains n or is  *)
(* contained in n (case-sensitive), and None (0) when no entry does; an     *)
(* earlier loose match wins over a later exact match.                       *)

LooseMatches(students, n) ==
    {k \in 1..Len(students) :
        Contains(students[k].name, n) \/ Contains(n, students[k].name)}

C7_FirstLooseMatch ==
    (row_ret # <<>> /\ name_in # <<>>) =>
        LET students == get_students_list(sheet_in)
            hits == LooseMatches(students, name_in)
        IN IF hits = {} THEN row_ret[1] = 0
           ELSE row_ret[1] = students[FirstOf(hits)].row

\* an entry that only loosely matches precedes one that matches exactly, and
\* the earlier one's row was returned
C7_Witness ==
    /\ row_ret # <<>>
    /\ name_in # <<>>
    /\ LET students == get_students_list(sheet_in)
       IN \E k, m \in 1..Len(students) :
            /\ k < m
            /\ students[k].name # name_in
            /\ students[m].name = name_in
            /\ k \in LooseMatches(students, name_in)
            /\ row_ret[1] = students[k].row
            /\ students[k].row # students[m].row

-----------------------------------------------------------------------------
(* C5: whenever stage 1 reports an error (missing OCR settings, transport   *)
(* failure, service failure) run_answer_ocr returns the empty text,         *)
(* confidence 0.0 and a non-empty error, and neither run_gemini_restore     *)
(* nor the restoration service is invoked.                                  *)

Stage1Fails(in) ==
    \/ ~in.env.api_url
    \/ ~in.env.secret_key
    \/ in.naver.kind # "ok"

InCalls(calls, c) == \E k \in 1..Len(calls) : calls[k] = c

C5_Stage1ErrorIsFatal ==
    (ocr_ret # <<>> /\ Stage1Fails(ocr_in)) =>
        /\ ocr_ret[1].text = <<>>
        /\ ocr_ret[1].confidence = 0
        /\ ocr_ret[1].error \notin {NoError, ""}
        /\ ~InCalls(ocr_ret[1].calls, "run_gemini_restore")
        /\ ~InCalls(ocr_ret[1].calls, "gemini_restore")

\* a transport failure with the restoration key present was returned
C5_Witness ==
    /\ ocr_ret # <<>>
    /\ ocr_in.env = [api_url |-> TRUE, secret_key |-> TRUE, api_key |-> TRUE]
    /\ ocr_in.naver.kind = "RequestException"
    /\ ocr_in.gemini.kind = "ok"
    /\ ocr_ret[1].error = ErrNaverApi

-----------------------------------------------------------------------------
(* Claims about process_pdf (specification Spec)                            *)

RecordsOfPage(p) ==
    {k \in 1..Len(students_data) : students_data[k].pages = <<p>>}

HeaderFailedOn(p) == Message("warning", "header", p) \in ui
OcrFailedOn(p) == Message("error", "ocr", p) \in ui

(* C1: whenever header extraction on an odd page returns an error-tagged    *)
(* result, the following even page yields no answer record and a warning   *)
(* is surfaced for that even page.                                         *)
C1_HeaderErrorSkipsEvenPage ==
    \A p \in 1..idx :
        (p % 2 = 0 /\ HeaderFailedOn(p - 1)) =>
            /\ RecordsOfPage(p) = {}
            /\ Message("warning", "no_student_info", p) \in ui

(* C2: every record emitted for an even page 2k has question_num 2 and the  *)
(* name, lesson and academy of the student context left by page 2k-1 (the  *)
(* context right after page 2k; empty name and academy when the header of  *)
(* 2k-1 failed), and of the record of page 2k-1 when that page emitted one. *)
Identity(r) == [name |-> r.name, lesson |-> r.lesson, academy |-> r.academy]

C2_EvenRecordCarriesContext ==
    \A k \in 1..Len(students_data) :
        LET r == students_data[k]
            p == r.pages[1]
        IN p % 2 = 0 =>
            /\ r.question_num = 2
            /\ p = idx =>
                /\ current_student_info # <<>>
                /\ Identity(r) = current_student_info[1]
            /\ HeaderFailedOn(p - 1) => (r.name = <<>> /\ r.academy = <<>>)
            /\ \A j \in RecordsOfPage(p - 1) :
                Identity(students_data[j]) = Identity(r)

\* page 2 emitted a record for a recognised student with a mapped academy,
\* and so did page 1
C2_Witness ==
    /\ idx = 2
    /\ RecordsOfPage(1) # {}
    /\ \E k \in RecordsOfPage(2) :
        /\ students_data[k].name = CheolSu
        /\ students_data[k].academy = BundangRussel

(* C3: pages are consumed once each in ascending 1-based order and the      *)
(* branch depends only on the parity of the index: an odd page runs the    *)
(* header branch and can only yield question 1 with pages = [index], an    *)
(* even page skips the header and can only yield question 2 with           *)
(* pages = [index]; each page yields at most one record and the records    *)
(* are in ascending page order.                                            *)
C3_ParitySelectsBranch ==
    /\ idx <= images
    /\ last.page = idx
    /\ (idx > 0 /\ last.stages # <<>>) =>
        (last.stages[1] = "run_header_ocr" <=> idx % 2 = 1)
    /\ (idx > 0 /\ idx % 2 = 0) => last.header_requests = 0
    /\ \A k \in 1..Len(students_data) :
        LET r == students_data[k]
        IN /\ Len(r.pages) = 1
           /\ r.pages[1] \in 1..idx
           /\ r.question_num = (IF r.pages[1] % 2 = 1 THEN 1 ELSE 2)
           /\ \A j \in 1..(k - 1) : students_data[j].pages[1] < r.pages[1]

\* three pages were consumed and each yielded its record
C3_Witness ==
    /\ idx = 3
    /\ Len(students_data) = 3
    /\ students_data[3].question_num = 1

(* C4: a raw-OCR failure on a page suppresses the record of that page only: *)
(* after any number of pages, a page has a record exactly when its OCR     *)
(* call did not fail; process_pdf returns only after the last page; and    *)
(* the record of an even page carries the context of its odd page also     *)
(* when that odd page's OCR failed.                                        *)
C4_OcrFailureIsLocal ==
    /\ \A p \in 1..idx : (RecordsOfPage(p) = {}) <=> OcrFailedOn(p)
    /\ pc \in {"returned", "done"} => idx = images
    /\ \A k \in RecordsOfPage(idx) :
        (idx % 2 = 0 /\ OcrFailedOn(idx - 1)) =>
            /\ current_student_info # <<>>
            /\ students_data[k].name = current_student_info[1].name
            /\ students_data[k].academy = current_student_info[1].academy

\* OCR failed on pages 1 and 2 of a three-page document whose page 3 was
\* recorded
C4_Witness ==
    /\ idx = 3
    /\ OcrFailedOn(1)
    /\ OcrFailedOn(2)
    /\ RecordsOfPage(3) # {}

\* OCR failed on page 1, whose header was read, and page 2 was recorded for
\* that student
C4_WitnessPair ==
    /\ idx = 2
    /\ OcrFailedOn(1)
    /\ \E k \in RecordsOfPage(2) : students_data[k].name = CheolSu

(* C6: when stage 1 succeeds with raw text R and the restoration fails      *)
(* (service error or missing GOOGLE_API_KEY), run_answer_ocr returns R, no *)
(* error and the success confidence 0.9, and the page's record is emitted  *)
(* with text R.                                                            *)
RestoreFailed ==
    /\ last.naver.kind = "ok"
    /\ ~env.api_key \/ last.gemini.kind = "Exception"

C6_RestoreFallsBackToRaw ==
    (idx > 0 /\ RestoreFailed) =>
        LET R == JoinTexts(last.naver.fields)
        IN /\ last.ocr = <<[text |-> R, confidence |-> 90, error |-> NoError]>>
           /\ \E k \in RecordsOfPage(idx) :
                /\ students_data[k].text = R
                /\ students_data[k].confidence = 90

\* the restoration service raised on an even page whose raw text is not empty
C6_Witness ==
    /\ idx = 2
    /\ env.api_key
    /\ last.gemini.kind = "Exception"
    /\ \E k \in RecordsOfPage(2) : students_data[k].text = <<"x">>

-----------------------------------------------------------------------------
(* Claims about the review step (specification SpecReview)                  *)

\* a script run of the review step that changed the name or the lesson of
\* record i
Corrected(i) ==
    /\ pc = "main" /\ pc' = "main"
    /\ Len(session_students_data') = Len(session_students_data)
    /\ \/ session_students_data'[i].name # session_students_data[i].name
       \/ session_students_data'[i].lesson # session_students_data[i].lesson

(* C8: an empty recognised name never matches: a record appended by         *)
(* process_pdf (odd or even page) with an empty name, and a record whose   *)
(* name a reviewer has just changed to the empty string, has no matched    *)
(* row and status unmatched.                                               *)
C8_EmptyNameNeverMatches ==
    [][/\ \A k \in 1..Len(students_data') :
            (k > Len(students_data) /\ students_data'[k].name = <<>>) =>
                /\ students_data'[k].row = 0
                /\ students_data'[k].status = "unmatched"
       /\ \A i \in 1..Len(session_students_data) :
            (Corrected(i) /\ session_students_data'[i].name = <<>>) =>
                /\ session_students_data'[i].row = 0
                /\ session_students_data'[i].status = "unmatched"]_vars

(* C9: after a review-step correction of a record's name or lesson the      *)
(* record's matched row is what find_student_row gives for its current     *)
(* lesson and name (None when the sheet cannot be read), and its status is *)
(* matched exactly when that row is present.                               *)
C9_CorrectionRematches ==
    [][\A i \in 1..Len(session_students_data) :
        Corrected(i) =>
            LET r == session_students_data'[i]
            IN /\ r.row \in {find_student_row(ReadRoster(r.lesson, TRUE), r.name),
                             find_student_row(ReadRoster(r.lesson, FALSE), r.name)}
               /\ r.status = "matched" <=> r.row # 0]_vars

-----------------------------------------------------------------------------
(* Claims about run_header_ocr (specification SpecHeader)                   *)

\* the request raised, the response did not parse, or a required key is
\* missing from the parsed response
HeaderUnusable(in) ==
    \/ in.response.kind # "json"
    \/ ~(HeaderKeys \subseteq DOMAIN in.response.result)

(* C11: run_header_ocr returns an error-tagged result with no identity      *)
(* fields on every request failure, every response that does not parse and  *)
(* every parsed response that lacks one of name, lesson, question_num,      *)
(* academy.                                                                 *)
C11_UnusableHeaderIsError ==
    (header_ret # <<>> /\ HeaderUnusable(header_in)) =>
        /\ "error" \in DOMAIN header_ret[1]
        /\ DOMAIN header_ret[1] \cap HeaderKeys = {}

-----------------------------------------------------------------------------
(* Claims about the crop regions (specification SpecCalib)                  *)

ValidRegion(c) ==
    /\ c.left < c.right
    /\ c.top < c.bottom
    /\ \A side \in Sides : c[side] \in 0..100

\* in this step a slider of the slot was moved
SliderMoved(slot) ==
    /\ sliders # <<>>
    /\ sliders' # <<>>
    /\ sliders'[1][slot] # sliders[1][slot]

(* C12: after any sequence of calibration actions both stored regions have  *)
(* left < right, top < bottom and every coordinate in [0,1]; the region a   *)
(* crop of a slot uses is the stored region of that slot; and the stored    *)
(* region of a slot is the one last set with that slot's sliders: it        *)
(* changes only in a step that moves one of them, to the sliders' values,   *)
(* so setting one slot leaves the other slot's region unchanged.            *)
C12_RegionIsLastSet ==
    [][/\ ValidRegion(crop_coords_q1') /\ ValidRegion(crop_coords_q2')
       /\ crop_used' # <<>> =>
            crop_used'[1].coords =
                (IF crop_used'[1].slot = "q1" THEN crop_coords_q1' ELSE crop_coords_q2')
       /\ crop_coords_q1' # crop_coords_q1 =>
            (SliderMoved("q1") /\ crop_coords_q1' = sliders'[1]["q1"])
       /\ crop_coords_q2' # crop_coords_q2 =>
            (SliderMoved("q2") /\ crop_coords_q2' = sliders'[1]["q2"])]_vars

-----------------------------------------------------------------------------
(* Claims about the termination of process_pdf (specification SpecLive)     *)

(* C13: for every document and every combination of failing external calls *)
(* (header recognition, reference lookup, roster read, crop, raw OCR,       *)
(* restoration) process_pdf, once entered, returns a record list, and it    *)
(* returns only after visiting all pages; no failure leaves it as an        *)
(* exception.                                                               *)
C13_ProcessPdfReturns ==
    (pc = "loop") ~>
        (pc = "returned" /\ idx = images /\ Len(students_data) <= images)

\* a three-page document returned with no record: every page's OCR failed,
\* after the header request of page 3 had failed too
C13_Witness ==
    /\ pc = "returned"
    /\ idx = 3
    /\ students_data = <<>>
    /\ HeaderFailedOn(3)
    /\ OcrFailedOn(3)

-----------------------------------------------------------------------------
(* Claims about the save action (specification SpecSave)                    *)

\* the cell of a record: its lesson's worksheet, its matched row, column H
\* for question 1 and column O otherwise
CellOf(student) ==
    <<student.lesson, student.row, IF student.question_num = 1 THEN 8 ELSE 15>>

Written(k) == last_save # <<>> /\ last_save[1][k]

ReadsBack(k) ==
    /\ CellOf(session_students_data[k]) \in DOMAIN cells
    /\ cells[CellOf(session_students_data[k])] = session_students_data[k].text

\* C14 as stated: after a save, for every record that was written (matched
\* row present, non-empty text), re-reading its cell returns the record's
\* text.
C14_EveryWrittenReadsBack ==
    \A k \in 1..Len(session_students_data) : Written(k) => ReadsBack(k)

(* C14, amended: after a save, for every record that was written and whose  *)
(* cell no later record of the list was written to, re-reading the cell at  *)
(* (record lesson, matched row, column of the question number) returns      *)
(* exactly that record's text.                                              *)
C14_LastWrittenReadsBack ==
    \A k \in 1..Len(session_students_data) :
        (/\ Written(k)
         /\ \A j \in (k + 1)..Len(session_students_data) :
                Written(j) =>
                    CellOf(session_students_data[j]) # CellOf(session_students_data[k]))
            => ReadsBack(k)

\* a question-1 and a question-2 record of the same row were both written
C14_Witness ==
    /\ Len(session_students_data) = 2
    /\ Written(1) /\ Written(2)
    /\ session_students_data[1].question_num = 1
    /\ session_students_data[2].question_num = 2
    /\ session_students_data[1].lesson = session_students_data[2].lesson
    /\ session_students_data[1].text # session_students_data[2].text

-----------------------------------------------------------------------------
(* Claims about get_lesson_prompt (specification SpecPrompt)                *)

\* the integer a cell holds, or -1 when it holds none
CellNumber(cell) == IF IsInt(cell) THEN DigitsValue(Strip(cell)) ELSE -1

PromptMatches(all_data, l, q) ==
    {i \in 2..Len(all_data) :
        /\ Len(all_data[i]) >= 2
        /\ CellNumber(all_data[i][1]) = l
        /\ CellNumber(all_data[i][2]) = q}

(* C15: get_lesson_prompt(lesson, question_num) returns the question,       *)
(* passage, rubric and model answer of the first row after the header row   *)
(* whose first two cells hold exactly (lesson, question_num); rows whose    *)
(* lesson or question cell is no integer are passed over; the header row    *)
(* never matches; with no matching row, or when the sheet read fails, the   *)
(* empty bundle is returned.                                                *)
C15_FirstMatchingRow ==
    prompt_ret # <<>> =>
        LET all_data == prompt_in.sheet.all_data
            hits == PromptMatches(all_data, prompt_in.lesson, prompt_in.question_num)
        IN IF ~prompt_in.sheet.ok \/ hits = {}
           THEN prompt_ret[1] = <<>>
           ELSE LET row == all_data[FirstOf(hits)]
                IN prompt_ret[1] =
                    <<[question |-> Cell(row, 3), passage |-> Cell(row, 4),
                       rubric |-> Cell(row, 5), model_answer |-> Cell(row, 6)]>>

\* the header row holds the wanted pair, a row with a non-integer cell
\* follows, and the row after it was returned
C15_Witness ==
    /\ prompt_ret # <<>>
    /\ prompt_in.sheet.ok
    /\ prompt_in.lesson = 1 /\ prompt_in.question_num = 1
    /\ Len(prompt_in.sheet.all_data) = 3
    /\ prompt_in.sheet.all_data[1] = << <<"1">>, <<"1">>, <<"a">> >>
    /\ prompt_in.sheet.all_data[2] = << <<"x">>, <<"1">>, <<"e">> >>
    /\ prompt_ret[1] # <<>>
    /\ prompt_ret[1][1].passage = <<"p">>

-----------------------------------------------------------------------------
(* Further claims about process_pdf (specification Spec)                    *)

(* C16: when cropping a page fails, the full uncropped page image is what   *)
(* the OCR/restoration stage is given, the page's record is still emitted   *)
(* when OCR succeeds, and the loop goes on: a crop failure neither          *)
(* suppresses a record nor leaves process_pdf as an exception.              *)
C16_CropFailureUsesPage ==
    /\ pc # "raised"
    /\ (idx > 0 /\ last.crop = "Exception") =>
        /\ last.ocr_image = "page"
        /\ last.ocr # <<>>
        /\ last.ocr[1].error = NoError => RecordsOfPage(idx) # {}
    /\ (idx > 0 /\ last.crop = "ok") => last.ocr_image = "cropped"

\* the crop of page 2 failed and page 2 was recorded; page 3 can follow
C16_Witness ==
    /\ idx = 2
    /\ images = 3
    /\ last.crop = "Exception"
    /\ RecordsOfPage(2) # {}

(* C17: with the generative API key present, exactly one header-            *)
(* recognition request is issued for each odd page and none for any even    *)
(* page (so n pages cause ceil(n/2) requests).                              *)
C17_OneHeaderRequestPerOddPage ==
    (idx > 0 /\ env.api_key) =>
        last.header_requests = (IF idx % 2 = 1 THEN 1 ELSE 0)

\* the position of the first call of a stage in a page's calls, 0 if none
Pos(stages, stage) ==
    IF \E k \in 1..Len(stages) : stages[k] = stage
    THEN CHOOSE k \in 1..Len(stages) :
            stages[k] = stage /\ \A j \in 1..(k - 1) : stages[j] # stage
    ELSE 0

\* every call of stage a comes before any call of stage b
Before(stages, a, b) ==
    \A i, j \in 1..Len(stages) : (stages[i] = a /\ stages[j] = b) => i < j

OddPageDone == idx > 0 /\ idx % 2 = 1 /\ last.page = idx

CredentialMissing ==
    \/ ~spreadsheet
    \/ ~env.api_key
    \/ ~env.api_url
    \/ ~env.secret_key

(* C19: if any required credential or identifier is missing, page           *)
(* processing cannot start: no page of an uploaded document is processed    *)
(* and no record is produced.                                               *)
C19_MissingCredentialBlocksProcessing ==
    CredentialMissing =>
        /\ pc # "loop"
        /\ idx = 0
        /\ students_data = <<>>
        /\ session_students_data = <<>>

-----------------------------------------------------------------------------
(* Claims about runs that return no record (specification SpecRerun)        *)

(* C20: when the renderer yields no page, process_pdf returns the empty     *)
(* list without any header, reference, roster, OCR or restoration call;     *)
(* and whenever a run returns zero records (empty render or every slot      *)
(* failed) the stored session records and the processing_complete flag      *)
(* are left as they were.                                                   *)
C20_EmptyResultChangesNothing ==
    [][/\ (pc' = "returned" /\ images' = 0) =>
            /\ students_data' = <<>>
            /\ idx' = 0
            /\ last' = NoLast
       /\ (pc = "returned" /\ pc' = "done" /\ students_data = <<>>) =>
            /\ session_students_data' = session_students_data
            /\ processing_complete' = processing_complete]_vars

\* after a run that stored records, a two-page run in which every slot
\* failed has come back
C20_Witness ==
    /\ pc = "done"
    /\ images = 2
    /\ students_data = <<>>
    /\ session_students_data # <<>>
    /\ processing_complete

-----------------------------------------------------------------------------
(* Claims about a whole session (specification SpecSession)                 *)

\* the status of a record says whether it has a sheet row
StatusTellsRow(r) == (r.status = "matched") <=> (r.row > 0)

\* a loop iteration of process_pdf has just run
LoopIteration == pc = "loop" /\ idx' = idx + 1

(* C21: in every state of the session (after process_pdf, after a name,     *)
(* lesson, question or text correction, after a manual roster selection)   *)
(* each stored record has status matched exactly when it has a positive    *)
(* sheet row; a save writes only for records with status matched and       *)
(* non-empty text; a roster miss is never an error: the record is appended *)
(* whenever the OCR reports no error, and the only error message of a loop *)
(* iteration is that of a failed OCR.                                      *)
C21_StatusIsRowPresence ==
    [][/\ \A k \in 1..Len(session_students_data') :
            StatusTellsRow(session_students_data'[k])
       /\ \A k \in 1..Len(students_data') : StatusTellsRow(students_data'[k])
       /\ last_save' # last_save =>
            /\ Len(last_save'[1]) = Len(session_students_data)
            /\ \A k \in 1..Len(session_students_data) :
                last_save'[1][k] =>
                    /\ session_students_data[k].status = "matched"
                    /\ session_students_data[k].text # <<>>
            /\ \A c \in DOMAIN cells' :
                (c \notin DOMAIN cells \/ cells'[c] # cells[c]) =>
                    \E k \in 1..Len(session_students_data) :
                        /\ last_save'[1][k]
                        /\ c = CellOf(session_students_data[k])
       /\ (LoopIteration /\ last'.ocr # <<>>) =>
            /\ last'.ocr[1].error = NoError =>
                    Len(students_data') = Len(students_data) + 1
            /\ \A m \in ui' \ ui :
                m.level = "error" => (m.what = "ocr" /\ last'.ocr[1].error # NoError)
      ]_vars

\* a saved session of two records: the first a roster miss of process_pdf
\* that was left unmatched and not written, the second corrected by name
\* and written
C21_Witness ==
    /\ last_save # <<>>
    /\ Len(session_students_data) = 2
    /\ session_students_data[1].name = CheolSu
    /\ session_students_data[1].row = 0
    /\ session_students_data[1].status = "unmatched"
    /\ session_students_data[1].text # <<>>
    /\ ~last_save[1][1]
    /\ session_students_data[2].name = YeongHui
    /\ session_students_data[2].status = "matched"
    /\ last_save[1][2]

-----------------------------------------------------------------------------
(* Claims about the student context of process_pdf (specification Spec)     *)

\* the loop iteration for page p has just run
Handles(p) == pc = "loop" /\ idx = p - 1 /\ idx' = p

====
